---- MODULE Spec2Model ----
(***************************************************************************)
(* Model of src/app.py: the Flask contact-form relay.  One request is      *)
(* handled at a time by handle_email (validation, configuration check,     *)
(* trimming, e-mail format check) which then calls send_email, whose SMTP   *)
(* session is modelled step by step (connect, starttls, login, sendmail,    *)
(* quit), each step either completing or raising.                           *)
(*                                                                          *)
(* Strings are sequences of one-character strings, so that str.strip() and  *)
(* the "in" tests are computed, not assumed.  JSON values are records       *)
(* [kind, str, num] of one shape.                                           *)
(***************************************************************************)
EXTENDS Integers, Sequences, FiniteSets, TLC

VARIABLES
    SENDER_EMAIL,     \* module global, read once from the environment
    SENDER_PASSWORD,  \* module global, read once from the environment
    pc,               \* position of the request being handled
    request,          \* the request being handled, or NoRequest
    args,             \* the arguments send_email was called with, or NoArgs
    log,              \* the steps of send_email attempted so far, with outcome
    session,          \* the SMTP session of this call: none / open / closed
    result,           \* what send_email returned: none / true / false
    response,         \* the response of handle_email, or NoResponse
    escaped           \* an exception left handle_email uncaught

vars == <<SENDER_EMAIL, SENDER_PASSWORD, pc, request, args, log, session,
          result, response, escaped>>

----------------------------------------------------------------------------
(* Bounds and input sets *)

\* Most whitespace characters put around a field's text.
MaxPad == 1

WS == {" "}

RECURSIVE Spaces(_)
Spaces(n) == IF n = 0 THEN <<>> ELSE <<" ">> \o Spaces(n - 1)

Padded(core) ==
    {Spaces(p[1]) \o core \o Spaces(p[2]) :
        p \in {q \in (0..MaxPad) \X (0..MaxPad) : q[1] + q[2] <= MaxPad}}

NameCores == {<<>>, <<"a">>}

EmailCores ==
    {<<>>, <<"a">>, <<"a", "@", "b">>, <<"a", ".", "b">>, <<"@", ".">>}

NameStrings == UNION {Padded(c) : c \in NameCores}

EmailStrings == UNION {Padded(c) : c \in EmailCores}

----------------------------------------------------------------------------
(* JSON values as Python sees them after request.get_json() *)

JStr(s) == [kind |-> "str", str |-> s, num |-> 0]
JNum(n) == [kind |-> "num", str |-> <<>>, num |-> n]
JNull == [kind |-> "null", str |-> <<>>, num |-> 0]
JFalse == [kind |-> "bool", str |-> <<>>, num |-> 0]
JEmptyList == [kind |-> "list", str |-> <<>>, num |-> 0]

\* The key is not in the object.
Absent == [kind |-> "absent", str |-> <<>>, num |-> 0]

\* JSON values a field may hold that are not strings: null, false, 0, 1, [].
NonStrings == {JNull, JFalse, JNum(0), JNum(1), JEmptyList}

NameValues == {JStr(s) : s \in NameStrings} \cup NonStrings \cup {Absent}

EmailValues == {JStr(s) : s \in EmailStrings} \cup NonStrings \cup {Absent}

required_fields == <<"name", "email", "message", "target_email">>

Required == {required_fields[i] : i \in 1..Len(required_fields)}

\* The JSON object holding exactly the fields that are not Absent.
MkObject(n, e, m, t) ==
    LET full == [f \in Required |->
                    CASE f = "name" -> n
                      [] f = "email" -> e
                      [] f = "message" -> m
                      [] f = "target_email" -> t]
    IN [f \in {k \in Required : full[k] # Absent} |-> full[f]]

EmptyObject == [f \in {} |-> Absent]

\* Bodies that are not JSON objects: unparseable text, and the JSON values
\* null, a list, a string, a number.
OtherBodyKinds == {"unparseable", "null", "list", "str", "num"}

Body(kind, fields) == [kind |-> kind, fields |-> fields]

Bodies ==
    {Body("dict", MkObject(n, e, m, t)) :
        n \in NameValues, e \in EmailValues, m \in NameValues, t \in EmailValues}
    \cup {Body(k, EmptyObject) : k \in OtherBodyKinds}

Requests == [is_json : BOOLEAN, body : Bodies]

\* os.getenv: None when the variable is unset, else its text (maybe empty).
EnvValues == {"None", "", "secret"}

NoRequest == [is_json |-> FALSE, body |-> Body("none", EmptyObject)]
NoArgs == <<>>
NoResponse == [status |-> 0, success |-> FALSE, text |-> "", fields |-> <<>>]

----------------------------------------------------------------------------
(* Python helpers *)

\* bool(v) of a JSON value (and of None for an absent key).
Truthy(v) ==
    CASE v.kind = "str" -> Len(v.str) > 0
      [] v.kind = "num" -> v.num # 0
      [] OTHER -> FALSE

\* bool(os.getenv(...)).
EnvTruthy(e) == e \notin {"None", ""}

RECURSIVE LStrip(_)
LStrip(s) == IF s # <<>> /\ Head(s) \in WS THEN LStrip(Tail(s)) ELSE s

RECURSIVE RStrip(_)
RStrip(s) ==
    IF s # <<>> /\ s[Len(s)] \in WS THEN RStrip(SubSeq(s, 1, Len(s) - 1)) ELSE s

\* Mutant of Strip: lstrip() in place of strip().
StripLeftOnly(s) == LStrip(s)

\* str.strip()
Strip(s) == RStrip(LStrip(s))

\* c in s
Contains(s, c) == \E i \in 1..Len(s) : s[i] = c

\* data.get(field)
Get(data, f) == IF f \in DOMAIN data THEN data[f] ELSE Absent

----------------------------------------------------------------------------
(* handle_email up to the call of send_email *)

Resp(status, success, text, fields) ==
    [status |-> status, success |-> success, text |-> text, fields |-> fields]

Return(resp) == [kind |-> "return", resp |-> resp, exc |-> "", args |-> <<>>]
Raise(exc) == [kind |-> "raise", resp |-> NoResponse, exc |-> exc, args |-> <<>>]
Call(a) == [kind |-> "call", resp |-> NoResponse, exc |-> "", args |-> a]

\* Mutant of MissingFields: "field not in data", which lets "" and null pass.
MissingFieldsKeyOnly(data) ==
    SelectSeq(required_fields, LAMBDA f : f \notin DOMAIN data)

\* [field for field in required_fields if not data.get(field)]
MissingFields(data) ==
    SelectSeq(required_fields, LAMBDA f : ~Truthy(Get(data, f)))

\* Mutant of ConfigOk: any() in place of all().
ConfigOkAny(se, sp) == EnvTruthy(se) \/ EnvTruthy(sp)

\* all([SENDER_EMAIL, SENDER_PASSWORD])
ConfigOk(se, sp) == EnvTruthy(se) /\ EnvTruthy(sp)

\* Mutant of BadEmailFormat: "and" in place of "or".
BadEmailFormatAnd(s) == ~Contains(s, "@") /\ ~Contains(s, ".")

\* '@' not in email or '.' not in email
BadEmailFormat(s) == ~Contains(s, "@") \/ ~Contains(s, ".")

\* Mutant of AnyEmpty: "and" in place of "or".
AnyEmptyAnd(name, email, message, target_email) ==
    name = <<>> /\ email = <<>> /\ message = <<>> /\ target_email = <<>>

\* not name or not email or not message or not target_email
AnyEmpty(name, email, message, target_email) ==
    name = <<>> \/ email = <<>> \/ message = <<>> \/ target_email = <<>>

\* Lines 99-126: the fields are trimmed and checked; only strings have strip().
ExtractAndCheck(data) ==
    IF \E f \in Required : data[f].kind # "str"
    THEN Raise("AttributeError")
    ELSE LET name == Strip(data["name"].str)
             email == Strip(data["email"].str)
             message == Strip(data["message"].str)
             target_email == Strip(data["target_email"].str)
         IN IF AnyEmpty(name, email, message, target_email)
            THEN Return(Resp(400, FALSE, "All fields must contain valid content", <<>>))
            ELSE IF BadEmailFormat(email)
            THEN Return(Resp(400, FALSE, "Invalid sender email format", <<>>))
            ELSE IF BadEmailFormat(target_email)
            THEN Return(Resp(400, FALSE, "Invalid target email format", <<>>))
            ELSE Call(<<name, email, message, target_email>>)

\* Lines 73-126: what the body of the try block does before send_email runs.
\* The error text of the missing-field response is the fixed prefix followed
\* by ", ".join(missing_fields), kept here as the list that is joined.
Validate(req, se, sp) ==
    IF ~req.is_json
    THEN Return(Resp(400, FALSE, "Content-Type must be application/json", <<>>))
    ELSE IF req.body.kind = "unparseable"
    THEN Raise("BadRequest")
    ELSE IF req.body.kind # "dict"
    THEN Raise("AttributeError")
    ELSE LET data == req.body.fields
             missing_fields == MissingFields(data)
         IN IF missing_fields # <<>>
            THEN Return(Resp(400, FALSE, "Missing required fields", missing_fields))
            ELSE IF ~ConfigOk(se, sp)
            THEN Return(Resp(500, FALSE, "Server email configuration error", <<>>))
            ELSE ExtractAndCheck(data)

\* Mutant of HandlerCatches: "except AttributeError".
HandlerCatchesAttributeError(exc) == exc = "AttributeError"

\* except Exception (line 137): every exception raised in the try block derives
\* from Exception (werkzeug's BadRequest, AttributeError).
HandlerCatches(exc) == TRUE

\* Mutant of SendResponse: the result of send_email is ignored.
SendResponseAlwaysOk(ok) == Resp(200, TRUE, "Email sent successfully", <<>>)

\* Mutant of SendResponse: "if not send_email(...)".
SendResponseInverted(ok) ==
    IF ~ok THEN Resp(200, TRUE, "Email sent successfully", <<>>)
    ELSE Resp(500, FALSE, "Failed to send email", <<>>)

\* Lines 126-135: the response chosen from what send_email returned.
SendResponse(ok) ==
    IF ok THEN Resp(200, TRUE, "Email sent successfully", <<>>)
    ELSE Resp(500, FALSE, "Failed to send email", <<>>)

InternalError == Resp(500, FALSE, "Internal server error", <<>>)

----------------------------------------------------------------------------
(* send_email *)

\* Lines 31-57 in the order they run: the message is built, the connection
\* opened, upgraded, authenticated, the message serialised, submitted, and the
\* session closed.
StepOrder ==
    <<"build", "connect", "starttls", "login", "as_string", "sendmail", "quit">>

IndexOf(s) == CHOOSE i \in 1..Len(StepOrder) : StepOrder[i] = s

\* Mutant of NextStep: login() is left out, sendmail follows starttls.
NextStepWithoutLogin(s) ==
    IF IndexOf(s) = Len(StepOrder) THEN "return"
    ELSE IF s = "starttls" THEN "as_string"
    ELSE StepOrder[IndexOf(s) + 1]

\* The statement that runs after step s completes; "return" after the last.
NextStep(s) ==
    IF IndexOf(s) = Len(StepOrder) THEN "return" ELSE StepOrder[IndexOf(s) + 1]

\* The session after step s: smtplib.SMTP(...) opens it, quit() closes it; a
\* step that raises leaves it as it was (the except clause does not close it).
SessionAfter(s, ok, cur) ==
    IF ok /\ s = "connect" THEN "open"
    ELSE IF ok /\ s = "quit" THEN "closed"
    ELSE cur

\* except Exception (line 62): log and return False.
SendCatches(exc) == TRUE

Init ==
    /\ SENDER_EMAIL \in EnvValues
    /\ SENDER_PASSWORD \in EnvValues
    /\ pc = "idle"
    /\ request = NoRequest
    /\ args = NoArgs
    /\ log = <<>>
    /\ session = "none"
    /\ result = "none"
    /\ response = NoResponse
    /\ escaped = FALSE

\* POST /send-email: lines 71-126 and 137-142, up to a response or to the call
\* of send_email.
HandleEmail ==
    /\ pc = "idle"
    /\ \E req \in Requests :
        LET out == Validate(req, SENDER_EMAIL, SENDER_PASSWORD) IN
        /\ request' = req
        /\ pc' = IF out.kind = "call" THEN StepOrder[1] ELSE "responded"
        /\ args' = IF out.kind = "call" THEN out.args ELSE NoArgs
        /\ response' = CASE out.kind = "return" -> out.resp
                         [] out.kind = "raise" /\ HandlerCatches(out.exc) -> InternalError
                         [] OTHER -> NoResponse
        /\ escaped' = (out.kind = "raise" /\ ~HandlerCatches(out.exc))
    /\ UNCHANGED <<SENDER_EMAIL, SENDER_PASSWORD, log, session, result>>

\* One statement of send_email, completing (ok) or raising.  After the last
\* statement send_email returns True; a raise is caught at line 62 and
\* send_email returns False; handle_email then answers (lines 126-135).
Step(s) ==
    /\ pc = s
    /\ \E ok \in BOOLEAN :
        LET next == IF ok THEN NextStep(s) ELSE "except"
            done == next \in {"return", "except"}
            caught == next = "except" /\ SendCatches("Exception")
        IN
        /\ log' = Append(log, [step |-> s, ok |-> ok])
        /\ session' = SessionAfter(s, ok, session)
        /\ pc' = IF done THEN "responded" ELSE next
        /\ result' = CASE next = "return" -> "true"
                       [] caught -> "false"
                       [] OTHER -> result
        /\ response' = CASE next = "return" -> SendResponse(TRUE)
                         [] caught -> SendResponse(FALSE)
                         [] next = "except" /\ HandlerCatches("Exception") -> InternalError
                         [] OTHER -> response
        /\ escaped' = (next = "except" /\ ~caught /\ ~HandlerCatches("Exception"))
    /\ UNCHANGED <<SENDER_EMAIL, SENDER_PASSWORD, request, args>>

Build == Step("build")
Connect == Step("connect")
StartTLS == Step("starttls")
Login == Step("login")
AsString == Step("as_string")
Sendmail == Step("sendmail")
Quit == Step("quit")

\* The response is sent; nothing of the request is kept.
Done ==
    /\ pc = "responded"
    /\ pc' = "idle"
    /\ request' = NoRequest
    /\ args' = NoArgs
    /\ log' = <<>>
    /\ session' = "none"
    /\ result' = "none"
    /\ response' = NoResponse
    /\ escaped' = FALSE
    /\ UNCHANGED <<SENDER_EMAIL, SENDER_PASSWORD>>

Next ==
    \/ HandleEmail
    \/ Build
    \/ Connect
    \/ StartTLS
    \/ Login
    \/ AsString
    \/ Sendmail
    \/ Quit
    \/ Done

Spec == Init /\ [][Next]_vars

----------------------------------------------------------------------------
(* Vocabulary of the properties, stated from the request and the response    *)
(* alone, without the handler's own helpers.                                 *)

Responded == pc = "responded"

JsonObject == request.is_json /\ request.body.kind = "dict"

Fld(f) == Get(request.body.fields, f)

Present(f) == f \in DOMAIN request.body.fields

IsStr(f) == Fld(f).kind = "str"

\* Only whitespace, or nothing at all: empty after trimming.
Blank(s) == \A i \in 1..Len(s) : s[i] = " "

\* t is s without its leading and trailing whitespace.
IsTrimOf(t, s) ==
    /\ \E l, r \in 0..Len(s) : s = Spaces(l) \o t \o Spaces(r)
    /\ t # <<>> => (t[1] # " " /\ t[Len(t)] # " ")

HasAtAndDot(s) ==
    /\ \E i \in 1..Len(s) : s[i] = "@"
    /\ \E i \in 1..Len(s) : s[i] = "."

\* Absent, or the empty string: what the claims call a missing field.
AbsentOrEmpty(f) == ~Present(f) \/ Fld(f) = JStr(<<>>)

\* Absent, or a value Python treats as false: "", null, false, 0, [].
AbsentOrFalsy(f) ==
    \/ ~Present(f)
    \/ Fld(f) \in {JStr(<<>>), JNull, JFalse, JNum(0), JEmptyList}

Unset(e) == e = "None"

\* Set to a non-empty text.
Configured == SENDER_EMAIL = "secret" /\ SENDER_PASSWORD = "secret"

AllStrings == \A f \in Required : Present(f) /\ IsStr(f)

AllNonBlankStrings == AllStrings /\ \A f \in Required : ~Blank(Fld(f).str)

SendEmailInvoked == args # NoArgs \/ log # <<>> \/ result # "none"

Completed(s) == \E i \in 1..Len(log) : log[i].step = s /\ log[i].ok

RaisedAt(s) == \E i \in 1..Len(log) : log[i].step = s /\ ~log[i].ok

MissingError(names) ==
    /\ response.status = 400
    /\ response.success = FALSE
    /\ response.text = "Missing required fields"
    /\ response.fields = names

ErrorIs(status, text) ==
    /\ response.status = status
    /\ response.success = FALSE
    /\ response.text = text
    /\ response.fields = <<>>

----------------------------------------------------------------------------
(* C1 *)

\* C1 as stated: a JSON object with a field absent or "" is answered 400 with
\* an error naming exactly the fields that are absent or "", in the order of
\* required_fields, and send_email is not invoked.
C1_Original ==
    (Responded /\ JsonObject /\ \E f \in Required : AbsentOrEmpty(f))
    => /\ MissingError(SelectSeq(required_fields, AbsentOrEmpty))
       /\ ~SendEmailInvoked

\* C1 (amended): a JSON object with a field that is absent or holds a falsy
\* value ("", null, false, 0, []) is answered 400 with success false and an
\* error naming exactly the absent-or-falsy fields, in the order name, email,
\* message, target_email, whatever the other fields hold and whatever the
\* credentials are; send_email is not invoked.
C1_MissingFieldsNamed ==
    (Responded /\ JsonObject /\ \E f \in Required : AbsentOrFalsy(f))
    => /\ MissingError(SelectSeq(required_fields, AbsentOrFalsy))
       /\ ~SendEmailInvoked

\* Two fields are named, the credentials are unset and email is malformed.
C1_Witness ==
    /\ Responded /\ JsonObject
    /\ Unset(SENDER_PASSWORD)
    /\ ~Present("name") /\ Fld("target_email") = JStr(<<>>)
    /\ Fld("email") = JStr(<<"a">>) /\ Fld("message") = JStr(<<" ">>)
    /\ response.fields = <<"name", "target_email">>

----------------------------------------------------------------------------
(* C2 *)

\* C2 as stated: four fields present, all strings, at least one empty after
\* trimming: the answer is 400 and lists the fields empty after trimming.
C2_Original ==
    (Responded /\ JsonObject /\ AllStrings
       /\ \E f \in Required : Blank(Fld(f).str))
    => /\ response.status = 400
       /\ response.fields =
            SelectSeq(required_fields, LAMBDA f : Blank(Fld(f).str))

\* C2 (amended): four string fields, at least one empty after trimming.  If
\* some field is the empty string the answer is the 400 missing-field error
\* naming exactly the empty strings (not the whitespace-only fields);
\* otherwise it is 400 "All fields must contain valid content", naming no
\* field, when both credentials are set, and 500 "Server email configuration
\* error" when they are not.  send_email is not invoked.
C2_BlankFieldsRejected ==
    (Responded /\ JsonObject /\ AllStrings
       /\ \E f \in Required : Blank(Fld(f).str))
    => /\ ~SendEmailInvoked
       /\ IF \E f \in Required : Fld(f).str = <<>>
          THEN MissingError(SelectSeq(required_fields, LAMBDA f : Fld(f).str = <<>>))
          ELSE IF Configured
          THEN ErrorIs(400, "All fields must contain valid content")
          ELSE ErrorIs(500, "Server email configuration error")

\* A whitespace-only name with everything else valid and the credentials set.
C2_Witness ==
    /\ Responded /\ JsonObject /\ Configured
    /\ Fld("name") = JStr(<<" ">>)
    /\ Fld("email") = JStr(<<"@", ".">>)
    /\ Fld("message") = JStr(<<"a">>)
    /\ Fld("target_email") = JStr(<<"@", ".">>)
    /\ response.status = 400

----------------------------------------------------------------------------
(* C3 *)

Malformed(f) == ~HasAtAndDot(Fld(f).str)

\* C3 as stated: four non-blank strings, email or target_email without '@' or
\* without '.': 400 in every configuration, the sender error when email is
\* malformed and the target error when target_email is malformed.
C3_Original ==
    (Responded /\ JsonObject /\ AllNonBlankStrings
       /\ (Malformed("email") \/ Malformed("target_email")))
    => /\ response.status = 400
       /\ response.success = FALSE
       /\ Malformed("email") => response.text = "Invalid sender email format"
       /\ Malformed("target_email") => response.text = "Invalid target email format"

\* C3 (amended): four non-blank strings, email or target_email without '@' or
\* without '.'.  With both credentials set the answer is 400, success false:
\* the sender-email error when email is malformed (also when target_email is
\* malformed too), the target-email error when only target_email is
\* malformed.  With a credential unset or empty the answer is 500 "Server
\* email configuration error".  send_email is not invoked.
C3_MalformedEmailRejected ==
    (Responded /\ JsonObject /\ AllNonBlankStrings
       /\ (Malformed("email") \/ Malformed("target_email")))
    => /\ ~SendEmailInvoked
       /\ IF ~Configured
          THEN ErrorIs(500, "Server email configuration error")
          ELSE IF Malformed("email")
          THEN ErrorIs(400, "Invalid sender email format")
          ELSE ErrorIs(400, "Invalid target email format")

\* Only target_email is malformed (it has '@' and no '.'), padded with a space.
C3_Witness ==
    /\ Responded /\ JsonObject /\ Configured /\ AllNonBlankStrings
    /\ ~Malformed("email")
    /\ Fld("target_email") = JStr(<<"a", "@", "b", " ">>)
    /\ response.text = "Invalid target email format"

----------------------------------------------------------------------------
(* C4 *)

\* JSON content type, four fields non-empty after trimming, both e-mail
\* fields with '@' and '.', credentials configured.
PassesValidation ==
    /\ JsonObject
    /\ AllNonBlankStrings
    /\ HasAtAndDot(Fld("email").str)
    /\ HasAtAndDot(Fld("target_email").str)
    /\ Configured

\* C4: a request that passes all validation is answered 200, success true,
\* "Email sent successfully" exactly when send_email returned True, and 500,
\* success false when it returned False; no other path of handle_email ever
\* answers success true.
C4_SuccessIffTransportSucceeds ==
    /\ (Responded /\ PassesValidation)
       => /\ result \in {"true", "false"}
          /\ result = "true" <=> response.status = 200
          /\ result = "true"
             => response = Resp(200, TRUE, "Email sent successfully", <<>>)
          /\ result = "false"
             => (response.status = 500 /\ response.success = FALSE)
    /\ response.success = TRUE
       => (Responded /\ PassesValidation /\ result = "true")

\* A padded, valid request whose transport succeeded.
C4_Witness ==
    /\ Responded /\ PassesValidation
    /\ Fld("name") = JStr(<<" ", "a">>)
    /\ result = "true"
    /\ response.status = 200

----------------------------------------------------------------------------
(* C5 *)

\* C5: send_email runs only for a request whose four fields are present and
\* non-empty after trimming, whose email and target_email have '@' and '.',
\* with both credentials set; its arguments are the trimmed field values.
C5_TransportOnlyForValidSubmission ==
    SendEmailInvoked
    => /\ PassesValidation
       /\ Len(args) = 4
       /\ \A i \in 1..4 : IsTrimOf(args[i], Fld(required_fields[i]).str)

\* send_email is about to submit a message whose name and target_email were
\* padded in the request.
C5_Witness ==
    /\ pc = "sendmail"
    /\ Fld("name") = JStr(<<" ", "a">>)
    /\ Fld("target_email") = JStr(<<"@", ".", " ">>)
    /\ args[1] = <<"a">> /\ args[4] = <<"@", ".">>

----------------------------------------------------------------------------
(* C6 *)

\* C6 as stated: with a credential unset, a JSON object whose four fields are
\* present and not the empty string is answered 500 "Server email
\* configuration error" and send_email is not invoked.
C6_Original ==
    (Responded /\ JsonObject
       /\ (Unset(SENDER_EMAIL) \/ Unset(SENDER_PASSWORD))
       /\ \A f \in Required : ~AbsentOrEmpty(f))
    => /\ ErrorIs(500, "Server email configuration error")
       /\ ~SendEmailInvoked

\* C6 (amended): with a credential unset, a JSON object whose four fields are
\* present and truthy (a non-empty string, or a non-string value that is not
\* null, false, 0 or empty) is answered 500 "Server email configuration
\* error", whatever the fields hold (whitespace only, malformed e-mail, not a
\* string), and send_email is not invoked; the check runs after the
\* missing-field check (a missing field is still answered 400) and before
\* trimming and the format checks.
C6_UnconfiguredRejected ==
    (Responded /\ JsonObject
       /\ (Unset(SENDER_EMAIL) \/ Unset(SENDER_PASSWORD)))
    => /\ ~SendEmailInvoked
       /\ IF \A f \in Required : ~AbsentOrFalsy(f)
          THEN ErrorIs(500, "Server email configuration error")
          ELSE response.status = 400

\* Only the password is unset; the fields are whitespace, a malformed e-mail,
\* a number and a well-formed e-mail.
C6_Witness ==
    /\ Responded /\ JsonObject
    /\ SENDER_EMAIL = "secret" /\ Unset(SENDER_PASSWORD)
    /\ Fld("name") = JStr(<<" ">>)
    /\ Fld("email") = JStr(<<"a">>)
    /\ Fld("message") = JNum(1)
    /\ Fld("target_email") = JStr(<<"@", ".">>)
    /\ response.status = 500

----------------------------------------------------------------------------
(* C7 *)

\* The body cannot be parsed, is not an object, or a field that passed the
\* missing-field check is not a string (with the credentials set, so that
\* strip() is reached).
UnexpectedFailure ==
    /\ request.is_json
    /\ \/ request.body.kind \in OtherBodyKinds
       \/ /\ request.body.kind = "dict"
          /\ \A f \in Required : ~AbsentOrFalsy(f)
          /\ Configured
          /\ \E f \in Required : ~IsStr(f)

\* C7: no exception leaves handle_email; every request ends with exactly one
\* response with a boolean success and a status among 200, 400, 500; an
\* unexpected failure is answered 500 "Internal server error" without
\* send_email being invoked.
C7_NoExceptionEscapes ==
    /\ escaped = FALSE
    /\ Responded
       => /\ response.status \in {200, 400, 500}
          /\ response.success \in BOOLEAN
          /\ response.success <=> response.status = 200
    /\ ~Responded => response = NoResponse
    /\ (Responded /\ UnexpectedFailure)
       => /\ ErrorIs(500, "Internal server error")
          /\ ~SendEmailInvoked

\* An unparseable body has been answered.
C7_Witness ==
    /\ Responded
    /\ request.is_json /\ request.body.kind = "unparseable"
    /\ response.text = "Internal server error"

----------------------------------------------------------------------------
(* C8 *)

SessionSteps == <<"connect", "starttls", "login", "sendmail", "quit">>

IsSmtp(e) == e.step \in {SessionSteps[i] : i \in 1..Len(SessionSteps)}

\* The SMTP steps attempted so far, in the order they were attempted.
SmtpLog == SelectSeq(log, IsSmtp)

\* C8: the SMTP steps of a call are attempted in the order connect, STARTTLS,
\* login, sendmail, quit, each at most once and only after every earlier one
\* completed; a step that raises is the last one, and send_email then has
\* returned False without raising; it returned True only when all five
\* completed.
C8_SessionOrder ==
    /\ Len(SmtpLog) <= Len(SessionSteps)
    /\ \A i \in 1..Len(SmtpLog) : SmtpLog[i].step = SessionSteps[i]
    /\ \A i \in 1..Len(log) : i < Len(log) => log[i].ok
    /\ (log # <<>> /\ ~log[Len(log)].ok)
       => (result = "false" /\ Responded /\ ~escaped)
    /\ result = "true"
       => (Len(SmtpLog) = Len(SessionSteps) /\ \A i \in 1..Len(log) : log[i].ok)
    /\ result = "false" => (log # <<>> /\ ~log[Len(log)].ok)

\* login raised: connect and STARTTLS completed, nothing ran after login.
C8_Witness ==
    /\ Responded
    /\ Completed("connect") /\ Completed("starttls") /\ RaisedAt("login")
    /\ Len(SmtpLog) = 3
    /\ result = "false"

----------------------------------------------------------------------------
(* C9 *)

\* C9 as stated: a request answered with a status other than 200 has
\* submitted no message: sendmail did not complete.
C9_Original ==
    (Responded /\ response.status # 200) => ~Completed("sendmail")

\* C9 (amended): a request answered with a status other than 200 has
\* submitted no message, except when sendmail completed and the final quit
\* raised: send_email then returns False and the answer is 500 "Failed to
\* send email" although the message was submitted.  A completed sendmail
\* followed by a completed quit is answered 200 with success true.
C9_NoSubmissionUnlessQuitRaised ==
    /\ (Responded /\ response.status # 200 /\ Completed("sendmail"))
       => (RaisedAt("quit") /\ ErrorIs(500, "Failed to send email"))
    /\ (Responded /\ Completed("sendmail") /\ Completed("quit"))
       => (response.status = 200 /\ response.success = TRUE)
    /\ (Responded /\ RaisedAt("quit")) => Completed("sendmail")

\* The message was submitted, quit raised, and the answer is 500.
C9_Witness ==
    /\ Responded
    /\ Completed("sendmail") /\ RaisedAt("quit")
    /\ response.status = 500

----------------------------------------------------------------------------
(* C10 *)

\* C10: once send_email has returned, the SMTP connection it opened has been
\* closed by quit, on the success path and on every failure path.
C10_SessionClosedOnReturn ==
    (Responded /\ Completed("connect")) => session = "closed"

====
